---------------------------- MODULE Spec2Model ----------------------------
(***************************************************************************)
(* A model of the signer command (main.go): the key file at the fixed      *)
(* path, load-or-create (Stat, then createSaveKey or useKey), sign, and    *)
(* the emitted JSON artifact, with the checks of main_test.go.             *)
(*                                                                         *)
(* Texts are sequences of bytes (0..255).  The key file is a sequence of   *)
(* PEM lines.  P-521 is replaced by a small prime-order group with the     *)
(* same signing equations; SHA-256 by a small fixed-width digest.          *)
(***************************************************************************)
EXTENDS Integers, Sequences, FiniteSets, TLC

(***************************************************************************)
(* Bounds of the model.                                                    *)
(***************************************************************************)
\* longest message / public-key text handed to sign in SignSpec
MaxLen == 2
\* invocations of main in one behaviour of Spec
MaxInvocations == 3
\* invocations of main in one behaviour of RaceSpec
MaxRacers == 2

(***************************************************************************)
(* Byte strings.                                                           *)
(***************************************************************************)
RECURSIVE Concat(_)
Concat(ss) == IF ss = <<>> THEN <<>> ELSE Head(ss) \o Concat(Tail(ss))

Drop(s, n) == SubSeq(s, n + 1, Len(s))

Take(s, n) == SubSeq(s, 1, n)

HasPrefixAt(t, i, lit) ==
    /\ i + Len(lit) - 1 <= Len(t)
    /\ \A j \in 1..Len(lit) : t[i + j - 1] = lit[j]

HasSuffix(t, lit) == Len(t) >= Len(lit) /\ HasPrefixAt(t, Len(t) - Len(lit) + 1, lit)

Min(S) == CHOOSE x \in S : \A y \in S : x <= y

\* bytes.Index from position i on: the first position of lit, 0 for none
Index(t, i, lit) ==
    LET S == {j \in i..Len(t) : HasPrefixAt(t, j, lit)}
    IN  IF S = {} THEN 0 ELSE Min(S)

RECURSIVE TrimRight(_, _)
TrimRight(s, cut) ==
    IF s # <<>> /\ s[Len(s)] \in cut THEN TrimRight(Take(s, Len(s) - 1), cut) ELSE s

RECURSIVE Remove(_, _)
Remove(s, cut) ==
    IF s = <<>> THEN <<>>
    ELSE IF s[1] \in cut THEN Remove(Tail(s), cut)
    ELSE <<s[1]>> \o Remove(Tail(s), cut)

(***************************************************************************)
(* unicode/utf8 as encoding/json uses it.                                  *)
(***************************************************************************)
RuneError == 65533

IsCont(s, i, lo, hi) == i <= Len(s) /\ s[i] >= lo /\ s[i] <= hi

\* utf8.DecodeRune on the bytes of s from position i on: <<rune, size>>
DecodeRuneAt(s, i) ==
    LET b0 == s[i]
        lo2 == CASE b0 = 224 -> 160
                 [] b0 = 240 -> 144
                 [] OTHER -> 128
        hi2 == CASE b0 = 237 -> 159
                 [] b0 = 244 -> 143
                 [] OTHER -> 191
    IN  IF b0 < 128 THEN <<b0, 1>>
        ELSE IF b0 >= 194 /\ b0 <= 223 THEN
            IF IsCont(s, i + 1, 128, 191)
            THEN <<(b0 % 32) * 64 + (s[i + 1] % 64), 2>>
            ELSE <<RuneError, 1>>
        ELSE IF b0 >= 224 /\ b0 <= 239 THEN
            IF IsCont(s, i + 1, lo2, hi2) /\ IsCont(s, i + 2, 128, 191)
            THEN <<(b0 % 16) * 4096 + (s[i + 1] % 64) * 64 + (s[i + 2] % 64), 3>>
            ELSE <<RuneError, 1>>
        ELSE IF b0 >= 240 /\ b0 <= 244 THEN
            IF IsCont(s, i + 1, lo2, hi2) /\ IsCont(s, i + 2, 128, 191)
               /\ IsCont(s, i + 3, 128, 191)
            THEN <<(b0 % 8) * 262144 + (s[i + 1] % 64) * 4096 + (s[i + 2] % 64) * 64
                   + (s[i + 3] % 64), 4>>
            ELSE <<RuneError, 1>>
        ELSE <<RuneError, 1>>

\* whether the byte at i belongs to the rune that starts up to three bytes
\* before it (a scan from the left has already taken it in)
InRune(s, i) ==
    \E j \in {i - 3, i - 2, i - 1} : j >= 1 /\ s[j] >= 128 /\ DecodeRuneAt(s, j)[2] > i - j

\* utf8.EncodeRune for a rune of the basic plane (surrogates become U+FFFD)
EncodeRune(r) ==
    IF r < 128 THEN <<r>>
    ELSE IF r < 2048 THEN <<192 + (r \div 64), 128 + (r % 64)>>
    ELSE IF r >= 55296 /\ r <= 57343 THEN <<239, 191, 189>>
    ELSE <<224 + (r \div 4096), 128 + ((r \div 64) % 64), 128 + (r % 64)>>

\* the pieces lo..hi of ps, joined
RECURSIVE Join(_, _, _)
Join(ps, lo, hi) ==
    IF lo > hi THEN <<>>
    ELSE IF lo = hi THEN ps[lo]
    ELSE Join(ps, lo, (lo + hi) \div 2) \o Join(ps, (lo + hi) \div 2 + 1, hi)

(***************************************************************************)
(* encoding/json: the string encoder of Marshal (HTML escaping on).  The   *)
(* scan from left to right is written as what each position contributes.   *)
(***************************************************************************)
HexDigit(n) == IF n < 10 THEN 48 + n ELSE 87 + n

\* \uXXXX
EscapeU(r) ==
    <<92, 117, HexDigit(r \div 4096), HexDigit((r \div 256) % 16),
      HexDigit((r \div 16) % 16), HexDigit(r % 16)>>

htmlSafe(b) == b >= 32 /\ b \notin {34, 92, 60, 62, 38}

EscapeByte(b) ==
    CASE b = 34 -> <<92, 34>>
      [] b = 92 -> <<92, 92>>
      [] b = 10 -> <<92, 110>>
      [] b = 13 -> <<92, 114>>
      [] b = 9  -> <<92, 116>>
      [] OTHER  -> EscapeU(b)

\* what the encoder writes for position i of s: an ASCII byte as it is or
\* escaped, a valid rune as it is (U+2028 and U+2029 escaped), and the
\* escape of U+FFFD for a byte that is no UTF-8
EncodePiece(s, i) ==
    IF s[i] < 128 THEN (IF htmlSafe(s[i]) THEN <<s[i]>> ELSE EscapeByte(s[i]))
    ELSE IF InRune(s, i) THEN <<>>
    ELSE IF DecodeRuneAt(s, i) = <<RuneError, 1>> THEN EscapeU(RuneError)
    ELSE IF DecodeRuneAt(s, i)[1] \in {8232, 8233} THEN EscapeU(DecodeRuneAt(s, i)[1])
    ELSE SubSeq(s, i, i + DecodeRuneAt(s, i)[2] - 1)

EncodeChars(s) == Join([i \in 1..Len(s) |-> EncodePiece(s, i)], 1, Len(s))

\* a JSON string literal: the quotes and the escaped content
jsonString(s) == <<34>> \o EncodeChars(s) \o <<34>>

\* json.MarshalIndent(out, "", "    ") of the output struct: three named
\* fields in the order of the struct, each on a line of its own
MarshalIndent(out) ==
    Concat(<< <<123, 10, 32, 32, 32, 32, 34, 109, 101, 115, 115, 97, 103, 101, 34, 58, 32>>,
              jsonString(out.Message),
              <<44, 10, 32, 32, 32, 32, 34, 115, 105, 103, 110, 97, 116, 117, 114, 101, 34, 58, 32>>,
              jsonString(out.Signature),
              <<44, 10, 32, 32, 32, 32, 34, 112, 117, 98, 107, 101, 121, 34, 58, 32>>,
              jsonString(out.PubKey),
              <<10, 125>> >>)

(***************************************************************************)
(* encoding/json: Unmarshal of an object of string members (main_test.go). *)
(* Surrogate pairs of \u escapes, which Marshal never writes, are not      *)
(* combined.                                                               *)
(***************************************************************************)
HexValue(c) ==
    IF c >= 48 /\ c <= 57 THEN c - 48
    ELSE IF c >= 97 /\ c <= 102 THEN c - 87
    ELSE IF c >= 65 /\ c <= 70 THEN c - 55
    ELSE -1

SimpleEscape(c) ==
    CASE c = 34 -> 34
      [] c = 92 -> 92
      [] c = 47 -> 47
      [] c = 98 -> 8
      [] c = 102 -> 12
      [] c = 110 -> 10
      [] c = 114 -> 13
      [] c = 116 -> 9
      [] OTHER -> -1

\* the backslashes that end at position i, not before position lo
RECURSIVE Backslashes(_, _, _)
Backslashes(t, i, lo) ==
    IF i >= lo /\ t[i] = 92 THEN 1 + Backslashes(t, i - 1, lo) ELSE 0

\* position k starts an escape of the string that starts at lo
EscStart(t, lo, k) == k >= lo /\ t[k] = 92 /\ Backslashes(t, k - 1, lo) % 2 = 0

\* position k is taken in by an escape that starts before it
InEscape(t, lo, k) ==
    \/ EscStart(t, lo, k - 1)
    \/ \E j \in (k - 5)..(k - 2) : EscStart(t, lo, j) /\ t[j + 1] = 117

HexRune(t, k) ==
    HexValue(t[k + 2]) * 4096 + HexValue(t[k + 3]) * 256 + HexValue(t[k + 4]) * 16
    + HexValue(t[k + 5])

\* position k of the string literal is well formed
UnquoteOk(t, lo, k) ==
    IF EscStart(t, lo, k) THEN
        IF t[k + 1] = 117
        THEN k + 5 <= Len(t) /\ \A j \in 2..5 : HexValue(t[k + j]) >= 0
        ELSE SimpleEscape(t[k + 1]) >= 0
    ELSE InEscape(t, lo, k) \/ t[k] >= 32

\* what position k of the string literal contributes to the value
UnquotePiece(t, lo, k) ==
    IF EscStart(t, lo, k) THEN
        IF t[k + 1] = 117 THEN EncodeRune(HexRune(t, k)) ELSE <<SimpleEscape(t[k + 1])>>
    ELSE IF InEscape(t, lo, k) THEN <<>>
    ELSE IF t[k] < 128 THEN <<t[k]>>
    ELSE IF InRune(t, k) THEN <<>>
    ELSE IF DecodeRuneAt(t, k) = <<RuneError, 1>> THEN EncodeRune(RuneError)
    ELSE SubSeq(t, k, k + DecodeRuneAt(t, k)[2] - 1)

\* The string whose opening quote is before position i of t:
\* <<ok, value, position after the closing quote>>
Unquote(t, i) ==
    LET closing == {j \in i..Len(t) : t[j] = 34 /\ Backslashes(t, j - 1, i) % 2 = 0}
        c       == Min(closing)
    IN  IF closing = {} THEN <<FALSE, <<>>, i>>
        ELSE IF \E k \in i..(c - 1) : ~UnquoteOk(t, i, k) THEN <<FALSE, <<>>, i>>
        ELSE <<TRUE, Join([k \in 1..(c - i) |-> UnquotePiece(t, i, i + k - 1)], 1, c - i), c + 1>>

RECURSIVE SkipSpace(_, _)
SkipSpace(t, i) ==
    IF i <= Len(t) /\ t[i] \in {32, 9, 10, 13} THEN SkipSpace(t, i + 1) ELSE i

\* The members of the object from position i on (after "{" or ","):
\* <<ok, sequence of <<key, value>> >>
RECURSIVE Members(_, _, _)
Members(t, i, acc) ==
    LET a == SkipSpace(t, i) IN
    IF a > Len(t) \/ t[a] # 34 THEN <<FALSE, <<>> >>
    ELSE LET k == Unquote(t, a + 1)
             c == SkipSpace(t, k[3])
         IN  IF ~k[1] \/ c > Len(t) \/ t[c] # 58 THEN <<FALSE, <<>> >>
             ELSE LET b == SkipSpace(t, c + 1) IN
                 IF b > Len(t) \/ t[b] # 34 THEN <<FALSE, <<>> >>
                 ELSE LET v == Unquote(t, b + 1)
                          e == SkipSpace(t, v[3])
                      IN  IF ~v[1] \/ e > Len(t) THEN <<FALSE, <<>> >>
                          ELSE IF t[e] = 44
                              THEN Members(t, e + 1, Append(acc, <<k[2], v[2]>>))
                          ELSE IF t[e] = 125 /\ SkipSpace(t, e + 1) > Len(t)
                              THEN <<TRUE, Append(acc, <<k[2], v[2]>>)>>
                          ELSE <<FALSE, <<>> >>

\* the value of the last member named key, the zero value when there is none
RECURSIVE Field(_, _)
Field(ms, key) ==
    IF ms = <<>> THEN <<>>
    ELSE IF ms[Len(ms)][1] = key THEN ms[Len(ms)][2]
    ELSE Field(Take(ms, Len(ms) - 1), key)

\* json.Unmarshal([]byte(signed), &out): <<ok, out>>
Unmarshal(t) ==
    LET a == SkipSpace(t, 1)
        m == IF a <= Len(t) /\ t[a] = 123 THEN Members(t, a + 1, <<>>) ELSE <<FALSE, <<>> >>
    IN  <<m[1],
          [Message   |-> Field(m[2], <<109, 101, 115, 115, 97, 103, 101>>),
           Signature |-> Field(m[2], <<115, 105, 103, 110, 97, 116, 117, 114, 101>>),
           PubKey    |-> Field(m[2], <<112, 117, 98, 107, 101, 121>>)]>>

(***************************************************************************)
(* encoding/base64: StdEncoding (padded, not URL-safe).                    *)
(***************************************************************************)
B64Char(n) ==
    IF n < 26 THEN 65 + n
    ELSE IF n < 52 THEN 71 + n
    ELSE IF n < 62 THEN n - 4
    ELSE IF n = 62 THEN 43
    ELSE 47

B64Value(c) ==
    IF c >= 65 /\ c <= 90 THEN c - 65
    ELSE IF c >= 97 /\ c <= 122 THEN c - 71
    ELSE IF c >= 48 /\ c <= 57 THEN c + 4
    ELSE IF c = 43 THEN 62
    ELSE IF c = 47 THEN 63
    ELSE -1

RECURSIVE EncodeToString(_)
EncodeToString(s) ==
    IF s = <<>> THEN <<>>
    ELSE IF Len(s) = 1 THEN
        <<B64Char(s[1] \div 4), B64Char((s[1] % 4) * 16), 61, 61>>
    ELSE IF Len(s) = 2 THEN
        <<B64Char(s[1] \div 4), B64Char((s[1] % 4) * 16 + (s[2] \div 16)),
          B64Char((s[2] % 16) * 4), 61>>
    ELSE <<B64Char(s[1] \div 4), B64Char((s[1] % 4) * 16 + (s[2] \div 16)),
           B64Char((s[2] % 16) * 4 + (s[3] \div 64)), B64Char(s[3] % 64)>>
         \o EncodeToString(Drop(s, 3))

\* base64.StdEncoding.DecodeString: <<ok, bytes>>
RECURSIVE DecodeString(_)
DecodeString(t) ==
    IF t = <<>> THEN <<TRUE, <<>> >>
    ELSE IF Len(t) < 4 THEN <<FALSE, <<>> >>
    ELSE LET a == B64Value(t[1])
             b == B64Value(t[2])
             c == B64Value(t[3])
             d == B64Value(t[4])
         IN  IF a < 0 \/ b < 0 THEN <<FALSE, <<>> >>
             ELSE IF t[3] = 61 THEN
                 IF t[4] = 61 /\ Len(t) = 4
                 THEN <<TRUE, <<a * 4 + (b \div 16)>> >>
                 ELSE <<FALSE, <<>> >>
             ELSE IF c < 0 THEN <<FALSE, <<>> >>
             ELSE IF t[4] = 61 THEN
                 IF Len(t) = 4
                 THEN <<TRUE, <<a * 4 + (b \div 16), (b % 16) * 16 + (c \div 4)>> >>
                 ELSE <<FALSE, <<>> >>
             ELSE IF d < 0 THEN <<FALSE, <<>> >>
             ELSE LET r == DecodeString(Drop(t, 4)) IN
                 <<r[1], <<a * 4 + (b \div 16), (b % 16) * 16 + (c \div 4), (c % 4) * 64 + d>>
                         \o r[2]>>

(***************************************************************************)
(* encoding/asn1: DER of ecdsaSig{R, S}, a SEQUENCE of two INTEGERs.       *)
(***************************************************************************)
\* big-endian bytes of a natural number, none for 0
RECURSIVE Magnitude(_)
Magnitude(n) == IF n = 0 THEN <<>> ELSE Append(Magnitude(n \div 256), n % 256)

\* the content of an INTEGER >= 0: minimal two's complement, so a leading
\* zero byte when the top bit of the magnitude is set
IntegerBytes(n) ==
    IF n = 0 THEN <<0>>
    ELSE IF Magnitude(n)[1] >= 128 THEN <<0>> \o Magnitude(n)
    ELSE Magnitude(n)

LengthBytes(n) ==
    IF n < 128 THEN <<n>>
    ELSE IF n < 256 THEN <<129, n>>
    ELSE <<130, n \div 256, n % 256>>

TLV(tag, body) == <<tag>> \o LengthBytes(Len(body)) \o body

\* asn1.Marshal(ecdsaSig{r, s})
asn1Marshal(sig) == TLV(48, TLV(2, IntegerBytes(sig.R)) \o TLV(2, IntegerBytes(sig.S)))

\* the element at position i of b: <<ok, tag, content, position after it>>
ParseTLV(b, i) ==
    IF i + 1 > Len(b) THEN <<FALSE, 0, <<>>, i>>
    ELSE LET l == b[i + 1]
             n == IF l < 128 THEN l
                  ELSE IF l = 129 /\ i + 2 <= Len(b) /\ b[i + 2] >= 128 THEN b[i + 2]
                  ELSE IF l = 130 /\ i + 3 <= Len(b) /\ b[i + 2] > 0
                       THEN b[i + 2] * 256 + b[i + 3]
                  ELSE -1
             h == IF l < 128 THEN 2 ELSE l - 126
         IN  IF n < 0 \/ i + h + n - 1 > Len(b) THEN <<FALSE, 0, <<>>, i>>
             ELSE <<TRUE, b[i], SubSeq(b, i + h, i + h + n - 1), i + h + n>>

RECURSIVE Unsigned(_)
Unsigned(c) == IF c = <<>> THEN 0 ELSE Unsigned(Take(c, Len(c) - 1)) * 256 + c[Len(c)]

RECURSIVE Pow256(_)
Pow256(n) == IF n = 0 THEN 1 ELSE 256 * Pow256(n - 1)

\* the content of an INTEGER parsed into a big.Int: <<ok, value>>
ParseBigInt(c) ==
    IF c = <<>> THEN <<FALSE, 0>>
    ELSE IF Len(c) > 1 /\ ((c[1] = 0 /\ c[2] < 128) \/ (c[1] = 255 /\ c[2] >= 128))
        THEN <<FALSE, 0>>
    ELSE IF c[1] >= 128 THEN <<TRUE, Unsigned(c) - Pow256(Len(c))>>
    ELSE <<TRUE, Unsigned(c)>>

\* asn1.Unmarshal(decSign, &sign): <<ok, sign>>; bytes after the two
\* INTEGERs, in the SEQUENCE or after it, are not an error
asn1Unmarshal(b) ==
    LET seq == ParseTLV(b, 1)
        e1  == ParseTLV(seq[3], 1)
        e2  == ParseTLV(seq[3], e1[4])
        r   == ParseBigInt(e1[3])
        s   == ParseBigInt(e2[3])
    IN  IF seq[1] /\ seq[2] = 48 /\ e1[1] /\ e1[2] = 2 /\ e2[1] /\ e2[2] = 2 /\ r[1] /\ s[1]
        THEN <<TRUE, [R |-> r[2], S |-> s[2]]>>
        ELSE <<FALSE, [R |-> 0, S |-> 0]>>

(***************************************************************************)
(* The curve.  elliptic.P521() is replaced by the subgroup of prime order  *)
(* CurveOrder of the integers modulo FieldPrime, generated by BasePoint:   *)
(* a point is a group element, k*G is BasePoint^k, and the number read off *)
(* a point (its x coordinate on the curve) is the element itself.          *)
(***************************************************************************)
FieldPrime == 1579

CurveOrder == 263

BasePoint == 64

RECURSIVE ModExp(_, _, _)
ModExp(b, e, m) ==
    IF e = 0 THEN 1
    ELSE IF e % 2 = 1 THEN (b * ModExp(b, e - 1, m)) % m
    ELSE LET h == ModExp(b, e \div 2, m) IN (h * h) % m

ScalarBaseMult(k) == ModExp(BasePoint, k, FieldPrime)

ScalarMult(Q, k) == ModExp(Q, k, FieldPrime)

Add(P, Q) == (P * Q) % FieldPrime

\* the inverse modulo the (prime) order
Inverse(a) == ModExp(a % CurveOrder, CurveOrder - 2, CurveOrder)

\* *ecdsa.PrivateKey: the scalar D and its public point
NilKey == [D |-> 0, Q |-> 0]

KeyOf(d) == [D |-> d, Q |-> ScalarBaseMult(d)]

(***************************************************************************)
(* crypto/sha256 and shaSum, crypto/ecdsa.                                 *)
(***************************************************************************)
RECURSIVE Fold(_, _)
Fold(h, s) == IF s = <<>> THEN h ELSE Fold((h * 33 + s[1] + 1) % 256, Tail(s))

\* sha256.Sum256([]byte(input)): a fixed-size digest, here of one byte,
\* shorter than the order as the 32 bytes of SHA-256 are for P-521
Sum256(m) == <<Fold(99, m)>>

\* a shaSum that allocates the slice and copies nothing into it
shaSumZero(input) == [i \in 1..Len(Sum256(input)) |-> 0]

\* shaSum copies the digest array into a new slice, index by index
shaSum(input) ==
    LET inputShaSum == Sum256(input)
    IN  [i \in 1..Len(inputShaSum) |-> inputShaSum[i]]

\* the digest as an integer; it is shorter than the order, so nothing is cut
hashToInt(hash) == Unsigned(hash)

\* the signature ecdsa.Sign computes with nonce k
SignR(k) == ScalarBaseMult(k) % CurveOrder

SignS(priv, hash, k) ==
    (Inverse(k) * ((hashToInt(hash) + SignR(k) * priv.D) % CurveOrder)) % CurveOrder

\* ecdsa.Sign draws nonces until neither R nor S is zero
GoodNonce(priv, hash, k) == SignR(k) # 0 /\ SignS(priv, hash, k) # 0

\* ecdsa.Verify(pub, hash, r, s)
Verify(Q, hash, r, s) ==
    /\ r >= 1 /\ r < CurveOrder
    /\ s >= 1 /\ s < CurveOrder
    /\ LET w  == Inverse(s)
           u1 == (hashToInt(hash) * w) % CurveOrder
           u2 == (r * w) % CurveOrder
       IN  Add(ScalarBaseMult(u1), ScalarMult(Q, u2)) % CurveOrder = r

(***************************************************************************)
(* crypto/x509: the DER structures of the two keys, cut down to the fields *)
(* that carry the key (version and scalar; algorithm and point).  The      *)
(* scalar and the point are written at the fixed width of the curve, so    *)
(* every key encodes to the same number of bytes.                          *)
(***************************************************************************)
FixedBytes(n) == <<n \div 256, n % 256>>

\* x509.MarshalECPrivateKey(privateKey)
MarshalECPrivateKey(key) == TLV(48, TLV(2, <<1>>) \o TLV(4, FixedBytes(key.D)))

\* x509.MarshalPKIXPublicKey(&pubKey)
MarshalPKIXPublicKey(Q) == TLV(48, TLV(48, <<>>) \o TLV(3, <<0, 4>> \o FixedBytes(Q)))

\* x509.ParseECPrivateKey(der): <<ok, key>>; the public point is computed
\* from the scalar
ParseECPrivateKey(der) ==
    LET seq == ParseTLV(der, 1)
        ver == ParseTLV(seq[3], 1)
        oct == ParseTLV(seq[3], ver[4])
    IN  IF /\ seq[1] /\ seq[2] = 48
           /\ ver[1] /\ ver[2] = 2 /\ ver[3] = <<1>>
           /\ oct[1] /\ oct[2] = 4
           /\ Len(oct[3]) <= 2
           /\ Unsigned(oct[3]) < CurveOrder
        THEN <<TRUE, KeyOf(Unsigned(oct[3]))>>
        ELSE <<FALSE, NilKey>>

(***************************************************************************)
(* encoding/pem.                                                           *)
(***************************************************************************)
\* "-----BEGIN "
pemStart == <<45, 45, 45, 45, 45, 66, 69, 71, 73, 78, 32>>

\* "-----END "
pemEnd == <<45, 45, 45, 45, 45, 69, 78, 68, 32>>

\* "-----"
pemEndOfLine == <<45, 45, 45, 45, 45>>

\* "PRIVATE KEY", "PUBLIC KEY"
PrivateType == <<80, 82, 73, 86, 65, 84, 69, 32, 75, 69, 89>>

PublicType == <<80, 85, 66, 76, 73, 67, 32, 75, 69, 89>>

\* pem.EncodeToMemory(&pem.Block{Type: type, Bytes: bytes}); the bodies of
\* the model are shorter than one line of 64 characters
EncodeToMemory(type, bytes) ==
    Concat(<< pemStart, type, pemEndOfLine, <<10>>,
              IF bytes = <<>> THEN <<>> ELSE EncodeToString(bytes) \o <<10>>,
              pemEnd, type, pemEndOfLine, <<10>> >>)

\* getLine on the text from position i: <<the line without its end and
\* without trailing blanks, the position after the line>>
getLine(t, i) ==
    LET nl == Index(t, i, <<10>>)
        e  == IF nl = 0 THEN Len(t) + 1 ELSE nl
    IN  <<TrimRight(SubSeq(t, i, e - 1), {32, 9, 13}), IF nl = 0 THEN Len(t) + 1 ELSE nl + 1>>

\* pem.Decode(data) searching from position o: <<found, type, bytes, rest>>;
\* nothing found gives a nil block and the whole data as rest.  Header
\* lines ("key: value") are not modelled.
RECURSIVE DecodeFrom(_, _)
DecodeFrom(data, o) ==
    LET nlStart == Index(data, o, <<10>> \o pemStart)
        b  == IF HasPrefixAt(data, o, pemStart) THEN o + Len(pemStart)
              ELSE IF nlStart = 0 THEN 0
              ELSE nlStart + 1 + Len(pemStart)
    IN  IF b = 0 THEN <<FALSE, <<>>, <<>>, data>>
        ELSE LET tl == getLine(data, b)
                 r  == tl[2]
             IN  IF ~HasSuffix(tl[1], pemEndOfLine) THEN DecodeFrom(data, r)
                 ELSE IF r > Len(data) THEN <<FALSE, <<>>, <<>>, data>>
                 ELSE LET type    == Take(tl[1], Len(tl[1]) - Len(pemEndOfLine))
                          nlEnd   == Index(data, r, <<10>> \o pemEnd)
                          atEnd   == HasPrefixAt(data, r, pemEnd)
                          bodyEnd == IF atEnd THEN r ELSE nlEnd
                          trailer == IF atEnd THEN r + Len(pemEnd) ELSE nlEnd + 1 + Len(pemEnd)
                          after   == trailer + Len(type) + Len(pemEndOfLine)
                          body    == DecodeString(Remove(SubSeq(data, r, bodyEnd - 1), {32, 9, 13, 10}))
                      IN  IF /\ (atEnd \/ nlEnd # 0)
                             /\ HasPrefixAt(data, trailer, type)
                             /\ HasPrefixAt(data, trailer + Len(type), pemEndOfLine)
                             /\ getLine(data, after)[1] = <<>>
                             /\ body[1]
                          THEN <<TRUE, type, body[2], Drop(data, getLine(data, after)[2] - 1)>>
                          ELSE DecodeFrom(data, r)

Decode(data) == DecodeFrom(data, 1)

(***************************************************************************)
(* sign (main.go 185-220).  k is the nonce ecdsa.Sign draws from           *)
(* rand.Reader; fault names the library call that returns an error, if any.*)
(***************************************************************************)
Faultless == "none"

NoError == "nil"

\* lines 196-203: the signature as ASN.1, then as base64 text
encSign(r, s) == EncodeToString(asn1Marshal([R |-> r, S |-> s]))

\* what sign returns on an error: the empty string and the error
signFailure(e) == [text |-> <<>>, err |-> e]

sign(input, pubKey, privKey, k, fault) ==
    IF privKey = NilKey THEN signFailure("panic")
    ELSE IF fault = "ecdsa.Sign" THEN signFailure(fault)
    ELSE IF fault = "asn1.Marshal" THEN signFailure(fault)
    ELSE IF fault = "json.MarshalIndent" THEN signFailure(fault)
    ELSE [text |-> MarshalIndent([Message   |-> input,
                                  Signature |-> encSign(SignR(k), SignS(privKey, shaSum(input), k)),
                                  PubKey    |-> pubKey]),
          err  |-> NoError]

SignFaults == {Faultless, "ecdsa.Sign", "asn1.Marshal", "json.MarshalIndent"}

(***************************************************************************)
(* The inputs the model draws.                                             *)
(***************************************************************************)
\* the invocations of main: 1 runs alone in Spec, 1 and 2 race in RaceSpec
Procs == {1, 2}

\* the scalars GenerateKey may draw, and the nonces ecdsa.Sign may draw
Scalars == {2, 130}

Nonces == {5, 200}

\* "Hello"
Hello == <<72, 101, 108, 108, 111>>

\* the limit of main on the length of its argument
MaxInput == 250

\* os.Args[1:]: no argument, one, two, and one that is too long
ArgLists == {<<>>, <<Hello>>, <<Hello, Hello>>, <<[i \in 1..(MaxInput + 1) |-> 97]>>}

\* "Please provide one argument that is 250 characters or less."
Usage ==
    <<80, 108, 101, 97, 115, 101, 32, 112, 114, 111, 118, 105, 100, 101, 32, 111, 110,
      101, 32, 97, 114, 103, 117, 109, 101, 110, 116, 32, 116, 104, 97, 116, 32, 105,
      115, 32, 50, 53, 48, 32, 99, 104, 97, 114, 97, 99, 116, 101, 114, 115, 32, 111,
      114, 32, 108, 101, 115, 115, 46>>

\* the two blocks createSaveKey builds (lines 112-141)
PublicPem(key) == EncodeToMemory(PublicType, MarshalPKIXPublicKey(key.Q))

PrivatePem(key) == EncodeToMemory(PrivateType, MarshalECPrivateKey(key))

\* a key record: the private block, then the public block
Record(key) == PrivatePem(key) \o PublicPem(key)

\* "junk\n"
Junk == <<106, 117, 110, 107, 10>>

\* the files that may be at the key path before the first invocation: a
\* record, a record after a blank line (the keys of main_test.go), an empty
\* file, text without armor, an armored block that is no EC private key, a
\* private block followed by other text
ExistingFiles ==
    {Record(KeyOf(2)), <<10>> \o Record(KeyOf(130)), <<>>, Junk,
     EncodeToMemory(PrivateType, MarshalPKIXPublicKey(KeyOf(2).Q)),
     PrivatePem(KeyOf(130)) \o Junk}

(***************************************************************************)
(* State.                                                                  *)
(***************************************************************************)
VARIABLES
    fileExists,   \* whether the key file exists at filePath
    fileContent,  \* its bytes
    pc,           \* where each invocation of main is
    input,        \* main: input
    offset,       \* createSaveKey: the position of file (the descriptor)
    privateKey,   \* createSaveKey: privateKey
    wrote,        \* createSaveKey: the bytes each WriteString wrote
    contents,     \* useKey: contents
    call,         \* main: which of createSaveKey and useKey was called
    loadRes,      \* how that call ended: "ok", "err", "panic"; "none" before
    privKey,      \* main: privKey
    pubKey,       \* main: pubKey
    output,       \* main: output and err of sign, "none" before
    stdout,       \* what the invocation printed on standard output
    exit,         \* the exit status, -1 while running
    invocations,  \* invocations that may still start
    atStart,      \* history: the file as the running invocation found it
    record0,      \* history: the first file an invocation found at the path
    preexisting,  \* history: whether the file existed before the first invocation
    first,        \* history: the first call of load-or-create and its result
    loads,        \* history: calls of load-or-create so far
    tStage, tInput, tPubKey, tPrivKey, tFault, tSigned, tOut, tValid
                  \* main_test.go: the arguments of sign, its result, the checks

fsVars == <<fileExists, fileContent>>

mainVars == <<pc, input, offset, privateKey, wrote, contents, call, loadRes, privKey,
              pubKey, output, stdout, exit, invocations>>

historyVars == <<atStart, record0, preexisting, first, loads>>

testVars == <<tStage, tInput, tPubKey, tPrivKey, tFault, tSigned, tOut, tValid>>

vars == <<fsVars, mainVars, historyVars, testVars>>

NoFile == [exists |-> FALSE, content |-> <<>>]

File == [exists |-> fileExists, content |-> fileContent]

NoOutput == [text |-> <<>>, err |-> "none"]

NoCall == [call |-> "none", res |-> "none", pub |-> <<>>]

NoOut == [Message |-> <<>>, Signature |-> <<>>, PubKey |-> <<>>]

IdleMain ==
    /\ pc = [p \in Procs |-> "idle"]
    /\ input = [p \in Procs |-> <<>>]
    /\ offset = [p \in Procs |-> 0]
    /\ privateKey = [p \in Procs |-> NilKey]
    /\ wrote = [p \in Procs |-> <<0, 0>>]
    /\ contents = [p \in Procs |-> <<>>]
    /\ call = [p \in Procs |-> "none"]
    /\ loadRes = [p \in Procs |-> "none"]
    /\ privKey = [p \in Procs |-> NilKey]
    /\ pubKey = [p \in Procs |-> <<>>]
    /\ output = [p \in Procs |-> NoOutput]
    /\ stdout = [p \in Procs |-> <<>>]
    /\ exit = [p \in Procs |-> -1]

IdleTest ==
    /\ tStage = "off"
    /\ tInput = <<>>
    /\ tPubKey = <<>>
    /\ tPrivKey = NilKey
    /\ tFault = Faultless
    /\ tSigned = NoOutput
    /\ tOut = <<FALSE, NoOut>>
    /\ tValid = FALSE

Init ==
    /\ \/ fileExists = FALSE /\ fileContent = <<>>
       \/ fileExists = TRUE /\ fileContent \in ExistingFiles
    /\ IdleMain
    /\ invocations = MaxInvocations
    /\ atStart = [p \in Procs |-> NoFile]
    /\ record0 = NoFile
    /\ preexisting = fileExists
    /\ first = NoCall
    /\ loads = 0
    /\ IdleTest

(***************************************************************************)
(* The file, as the calls of createSaveKey and useKey see it.              *)
(***************************************************************************)
RECURSIVE Zeros(_)
Zeros(n) == IF n <= 0 THEN <<>> ELSE <<0>> \o Zeros(n - 1)

\* a write of s at position off of the file: it overwrites what is there
\* and extends the file (os.O_RDWR|os.O_CREATE: no O_APPEND, no O_TRUNC)
WriteAt(content, off, s) ==
    Take(content, off) \o Zeros(off - Len(content)) \o s \o Drop(content, off + Len(s))

\* the byte counts file.WriteString(s) may return: all of s, or less with
\* an error (nothing, or the first line)
WriteCounts(s) == {0, Index(s, 1, <<10>>), Len(s)}

\* lines 50-62 of main: createSaveKey when Stat reports that the file does
\* not exist, useKey when Stat reports no error
\* a main that regenerates the key whatever os.Stat reports
BranchAlwaysCreate(exists) == "createSaveKey"

Branch(exists) == IF exists THEN "useKey" ELSE "createSaveKey"

\* a checkError that lets every error pass
checkErrorIgnored(err) == FALSE

\* checkError(err): whether log.Fatal ends the process
checkError(err) == err # NoError

(***************************************************************************)
(* main, step by step.                                                     *)
(***************************************************************************)
Goto(p, l) == pc' = [pc EXCEPT ![p] = l]

\* log.Fatal(err): os.Exit(1)
Fatal(p) == Goto(p, "done") /\ exit' = [exit EXCEPT ![p] = 1]

\* the call of load-or-create returns to main
Returned(p, res, key, pub) ==
    /\ loadRes' = [loadRes EXCEPT ![p] = res]
    /\ privKey' = [privKey EXCEPT ![p] = key]
    /\ pubKey' = [pubKey EXCEPT ![p] = pub]
    /\ first' = IF first.call = "none"
                THEN [call |-> call[p], res |-> res, pub |-> pub]
                ELSE first

\* lines 30-40: the argument checks
Main(p) ==
    /\ pc[p] = "idle"
    /\ invocations > 0
    /\ invocations' = invocations - 1
    /\ atStart' = [atStart EXCEPT ![p] = File]
    /\ record0' = IF record0.exists THEN record0 ELSE File
    /\ \E args \in ArgLists :
        IF Len(args) # 1
        THEN /\ stdout' = [stdout EXCEPT ![p] = <<Usage>>]
             /\ Fatal(p)
             /\ UNCHANGED input
        ELSE IF Len(args[1]) > MaxInput
        THEN /\ stdout' = [stdout EXCEPT ![p] = <<Usage>>]
             /\ Fatal(p)
             /\ UNCHANGED input
        ELSE /\ input' = [input EXCEPT ![p] = args[1]]
             /\ Goto(p, "fullPath")
             /\ UNCHANGED <<stdout, exit>>
    /\ UNCHANGED <<fsVars, offset, privateKey, wrote, contents, call, loadRes, privKey,
                   pubKey, output, preexisting, first, loads, testVars>>

\* line 47, fullPath: os.MkdirAll and checkError
FullPath(p) ==
    /\ pc[p] = "fullPath"
    /\ \E mkdirErr \in {NoError, "os.MkdirAll"} :
        IF checkError(mkdirErr)
        THEN Fatal(p)
        ELSE Goto(p, "stat") /\ UNCHANGED exit
    /\ UNCHANGED <<fsVars, input, offset, privateKey, wrote, contents, call, loadRes,
                   privKey, pubKey, output, stdout, invocations, historyVars, testVars>>

\* lines 50-62: os.Stat and the choice between createSaveKey and useKey
Stat(p) ==
    /\ pc[p] = "stat"
    /\ \E statErr \in {NoError, "os.Stat"} :
        IF statErr # NoError
        THEN Fatal(p) /\ UNCHANGED <<call, loads>>
        ELSE /\ call' = [call EXCEPT ![p] = Branch(fileExists)]
             /\ Goto(p, call'[p])
             /\ loads' = loads + 1
             /\ UNCHANGED exit
    /\ UNCHANGED <<fsVars, input, offset, privateKey, wrote, contents, loadRes, privKey,
                   pubKey, output, stdout, invocations, atStart, record0, preexisting,
                   first, testVars>>

\* lines 89-93: os.OpenFile(filePath, os.O_RDWR|os.O_CREATE, 0600)
OpenFile(p) ==
    /\ pc[p] = "createSaveKey"
    /\ \E openErr \in {NoError, "os.OpenFile"} :
        IF openErr # NoError
        THEN /\ Returned(p, "err", NilKey, <<>>)
             /\ Fatal(p)
             /\ UNCHANGED <<fsVars, offset>>
        ELSE /\ fileExists' = TRUE
             /\ fileContent' = fileContent
             /\ offset' = [offset EXCEPT ![p] = 0]
             /\ Goto(p, "GenerateKey")
             /\ UNCHANGED <<loadRes, privKey, pubKey, first, exit>>
    /\ UNCHANGED <<input, privateKey, wrote, contents, call, output, stdout, invocations,
                   atStart, record0, preexisting, loads, testVars>>

\* lines 98-141: the key pair and its two PEM blocks
GenerateKey(p) ==
    /\ pc[p] = "GenerateKey"
    /\ \E d \in Scalars, genErr \in {NoError, "ecdsa.GenerateKey",
                                     "x509.MarshalPKIXPublicKey", "x509.MarshalECPrivateKey"} :
        IF genErr # NoError
        THEN /\ d = Min(Scalars)
             /\ Returned(p, "err", NilKey, <<>>)
             /\ Fatal(p)
             /\ UNCHANGED privateKey
        ELSE /\ privateKey' = [privateKey EXCEPT ![p] = KeyOf(d)]
             /\ Goto(p, "WritePriv")
             /\ UNCHANGED <<loadRes, privKey, pubKey, first, exit>>
    /\ UNCHANGED <<fsVars, input, offset, wrote, contents, call, output, stdout,
                   invocations, atStart, record0, preexisting, loads, testVars>>

\* line 145: file.WriteString(string(encPrivPem)), its results dropped
WritePriv(p) ==
    /\ pc[p] = "WritePriv"
    /\ \E n \in WriteCounts(PrivatePem(privateKey[p])) :
        /\ fileContent' = WriteAt(fileContent, offset[p], Take(PrivatePem(privateKey[p]), n))
        /\ offset' = [offset EXCEPT ![p] = @ + n]
        /\ wrote' = [wrote EXCEPT ![p] = <<n, 0>>]
    /\ Goto(p, "WritePub")
    /\ UNCHANGED <<fileExists, input, privateKey, contents, call, loadRes, privKey, pubKey,
                   output, stdout, exit, invocations, historyVars, testVars>>

\* lines 146-150: file.WriteString(string(encPubPem)), its results dropped,
\* and the return of privateKey, string(encPubPem), nil
WritePub(p) ==
    /\ pc[p] = "WritePub"
    /\ \E n \in WriteCounts(PublicPem(privateKey[p])) :
        /\ fileContent' = WriteAt(fileContent, offset[p], Take(PublicPem(privateKey[p]), n))
        /\ offset' = [offset EXCEPT ![p] = @ + n]
        /\ wrote' = [wrote EXCEPT ![p] = <<@[1], n>>]
    /\ Returned(p, "ok", privateKey[p], PublicPem(privateKey[p]))
    /\ Goto(p, "sign")
    /\ UNCHANGED <<fileExists, input, privateKey, contents, call, output, stdout, exit,
                   invocations, atStart, record0, preexisting, loads, testVars>>

\* lines 156-179: useKey.  pem.Decode returns a nil block when the file
\* holds no PEM block, and block.Bytes then panics (exit status 2)
useKey(p) ==
    /\ pc[p] = "useKey"
    /\ \E readErr \in {NoError, "ioutil.ReadFile"} :
        IF readErr # NoError
        THEN /\ Returned(p, "err", NilKey, <<>>)
             /\ Fatal(p)
             /\ UNCHANGED contents
        ELSE /\ contents' = [contents EXCEPT ![p] = fileContent]
             /\ LET block == Decode(fileContent)
                    key   == ParseECPrivateKey(block[3])
                IN  IF ~block[1]
                    THEN /\ Returned(p, "panic", NilKey, <<>>)
                         /\ Goto(p, "done")
                         /\ exit' = [exit EXCEPT ![p] = 2]
                    ELSE IF ~key[1]
                    THEN /\ Returned(p, "err", NilKey, <<>>)
                         /\ Fatal(p)
                    ELSE /\ Returned(p, "ok", key[2], block[4])
                         /\ Goto(p, "sign")
                         /\ UNCHANGED exit
    /\ UNCHANGED <<fsVars, input, offset, privateKey, wrote, call, output, stdout,
                   invocations, atStart, record0, preexisting, loads, testVars>>

\* lines 64-65: output, err := sign(input, pubKey, privKey); checkError(err)
Sign(p) ==
    /\ pc[p] = "sign"
    /\ \E k \in Nonces, fault \in SignFaults :
        /\ IF fault = Faultless
           THEN GoodNonce(privKey[p], shaSum(input[p]), k)
           ELSE k = Min(Nonces)
        /\ output' = [output EXCEPT ![p] = sign(input[p], pubKey[p], privKey[p], k, fault)]
    /\ IF checkError(output'[p].err)
       THEN Fatal(p)
       ELSE Goto(p, "Println") /\ UNCHANGED exit
    /\ UNCHANGED <<fsVars, input, offset, privateKey, wrote, contents, call, loadRes,
                   privKey, pubKey, stdout, invocations, historyVars, testVars>>

\* line 67: fmt.Println(output), and main returns
Println(p) ==
    /\ pc[p] = "Println"
    /\ stdout' = [stdout EXCEPT ![p] = Append(@, output[p].text)]
    /\ Goto(p, "done")
    /\ exit' = [exit EXCEPT ![p] = 0]
    /\ UNCHANGED <<fsVars, input, offset, privateKey, wrote, contents, call, loadRes,
                   privKey, pubKey, output, invocations, historyVars, testVars>>

\* the process is gone; the next invocation starts afresh
Exit(p) ==
    /\ pc[p] = "done"
    /\ Goto(p, "idle")
    /\ input' = [input EXCEPT ![p] = <<>>]
    /\ offset' = [offset EXCEPT ![p] = 0]
    /\ privateKey' = [privateKey EXCEPT ![p] = NilKey]
    /\ wrote' = [wrote EXCEPT ![p] = <<0, 0>>]
    /\ contents' = [contents EXCEPT ![p] = <<>>]
    /\ call' = [call EXCEPT ![p] = "none"]
    /\ loadRes' = [loadRes EXCEPT ![p] = "none"]
    /\ privKey' = [privKey EXCEPT ![p] = NilKey]
    /\ pubKey' = [pubKey EXCEPT ![p] = <<>>]
    /\ output' = [output EXCEPT ![p] = NoOutput]
    /\ stdout' = [stdout EXCEPT ![p] = <<>>]
    /\ exit' = [exit EXCEPT ![p] = -1]
    /\ atStart' = [atStart EXCEPT ![p] = NoFile]
    /\ UNCHANGED <<fsVars, invocations, record0, preexisting, first, loads, testVars>>

\* the steps of a running invocation
Run(p) ==
    \/ FullPath(p)
    \/ Stat(p)
    \/ OpenFile(p)
    \/ GenerateKey(p)
    \/ WritePriv(p)
    \/ WritePub(p)
    \/ useKey(p)
    \/ Sign(p)
    \/ Println(p)
    \/ Exit(p)

\* Invocations one after the other: the design's assumption (one
\* invocation at a time).
Next == Main(1) \/ Run(1)

Spec == Init /\ [][Next]_vars

\* A started invocation keeps running: its steps are blocking calls that
\* return.  This is weak fairness of Run(1) with its enabling condition
\* written out: a step of Run(1) is possible exactly when the invocation
\* has started (pc[1] # "idle"), up to and including its exit.
Running(p) == pc[p] # "idle"

FairSpec == Spec /\ ([]<>(~Running(1)) \/ []<><<Run(1)>>_vars)

\* First use by invocations that overlap: no file at the path, and
\* MaxRacers invocations started at any time.
RaceInit ==
    /\ fileExists = FALSE /\ fileContent = <<>>
    /\ IdleMain
    /\ invocations = MaxRacers
    /\ atStart = [p \in Procs |-> NoFile]
    /\ record0 = NoFile
    /\ preexisting = FALSE
    /\ first = NoCall
    /\ loads = 0
    /\ IdleTest

RaceNext == \E p \in Procs : Main(p) \/ Run(p)

RaceSpec == RaceInit /\ [][RaceNext]_vars

(***************************************************************************)
(* main_test.go: sign called on a fixed key pair, and the checks of the    *)
(* three tests on what it returns.                                         *)
(***************************************************************************)
\* the bytes the strings are drawn from: H, the quote, <, and the two bytes
\* of U+00E9, each of which alone is no UTF-8
Alphabet == {72, 34, 60, 195, 169}

RECURSIVE Strings(_)
Strings(n) ==
    IF n = 0 THEN {<<>>}
    ELSE Strings(n - 1) \cup {Append(s, b) : s \in {x \in Strings(n - 1) : Len(x) = n - 1},
                                              b \in Alphabet}

TestScalars == {2, 262}

\* the constant keys: a blank line, the private block, the public block
keys(d) == <<10>> \o Record(KeyOf(d))

\* keyContents(): the private key and the text after its block
keyContents(d) ==
    LET block == Decode(keys(d))
    IN  [privKey |-> ParseECPrivateKey(block[3])[2], pubKey |-> block[4]]

\* other texts handed to sign as the public key
OtherPubKeys == {<<>>, <<32, 10>>, <<255>>}

TestInit ==
    /\ fileExists = FALSE /\ fileContent = <<>>
    /\ IdleMain
    /\ invocations = 0
    /\ atStart = [p \in Procs |-> NoFile]
    /\ record0 = NoFile
    /\ preexisting = FALSE
    /\ first = NoCall
    /\ loads = 0
    /\ tStage = "call"
    /\ tInput \in Strings(MaxLen) \cup {Hello}
    /\ \E d \in TestScalars :
        /\ tPrivKey = keyContents(d).privKey
        /\ tPubKey \in {keyContents(d).pubKey} \cup OtherPubKeys
    /\ tFault = Faultless
    /\ tSigned = NoOutput
    /\ tOut = <<FALSE, NoOut>>
    /\ tValid = FALSE

\* signed, err := sign(input, pubKey, privKey)
TestSign ==
    /\ tStage = "call"
    /\ \E k \in Nonces, fault \in SignFaults :
        /\ IF fault = Faultless
           THEN GoodNonce(tPrivKey, shaSum(tInput), k)
           ELSE k = Min(Nonces)
        /\ tSigned' = sign(tInput, tPubKey, tPrivKey, k, fault)
        /\ tFault' = fault
    /\ tStage' = "signed"
    /\ UNCHANGED <<fsVars, mainVars, historyVars, tInput, tPubKey, tPrivKey, tOut, tValid>>

\* err = json.Unmarshal([]byte(signed), &out)
TestUnmarshal ==
    /\ tStage = "signed"
    /\ tSigned.err = NoError
    /\ tOut' = Unmarshal(tSigned.text)
    /\ tStage' = "parsed"
    /\ UNCHANGED <<fsVars, mainVars, historyVars, tInput, tPubKey, tPrivKey, tFault,
                   tSigned, tValid>>

\* TestValidSignature, lines 73-87
TestVerify ==
    /\ tStage = "parsed"
    /\ LET decSign == DecodeString(tOut[2].Signature)
           sig     == asn1Unmarshal(decSign[2])
       IN  tValid' = (/\ tOut[1] /\ decSign[1] /\ sig[1]
                      /\ Verify(tPrivKey.Q, shaSum(tInput), sig[2].R, sig[2].S))
    /\ tStage' = "verified"
    /\ UNCHANGED <<fsVars, mainVars, historyVars, tInput, tPubKey, tPrivKey, tFault,
                   tSigned, tOut>>

TestNext == TestSign \/ TestUnmarshal \/ TestVerify

SignSpec == TestInit /\ [][TestNext]_vars

(***************************************************************************)
(* Properties.                                                             *)
(***************************************************************************)
\* the file holds a private block that useKey can load
ValidPrivateBlock(c) == Decode(c)[1] /\ ParseECPrivateKey(Decode(c)[3])[1]

\* the file is a key record
IsRecord(c) == \E d \in Scalars : c = Record(KeyOf(d))

\* both calls of WriteString in the createSaveKey of p wrote all their bytes
WroteAll(p) == wrote[p] = <<Len(PrivatePem(privateKey[p])), Len(PublicPem(privateKey[p]))>>

\* the artifacts on standard output
Artifacts(p) == SelectSeq(stdout[p], LAMBDA x : x # Usage)

\* C1: once an invocation has found a file at the key path, the file exists
\* with the same bytes in every later state, whatever the later invocations
\* do and however they end; createSaveKey is called only by an invocation
\* that found no file.
C1_ExistingRecordIsKept ==
    /\ record0.exists => fileExists /\ fileContent = record0.content
    /\ \A p \in Procs : call[p] = "createSaveKey" => ~atStart[p].exists

\* a file the first invocation created, still there when the last of the
\* later invocations has loaded it and ended
C1_Witness ==
    /\ ~preexisting /\ record0.exists
    /\ invocations = 0 /\ pc[1] = "done" /\ call[1] = "useKey"

\* C2: when the first call of load-or-create was createSaveKey and returned
\* a key, the second call returns the same public key text and leaves the
\* file as it found it.
C2_SecondCallSamePublicKey ==
    (/\ loads = 2
     /\ first.call = "createSaveKey" /\ first.res = "ok"
     /\ loadRes[1] # "none")
    => /\ loadRes[1] = "ok"
       /\ pubKey[1] = first.pub
       /\ File = atStart[1]

\* C3: two invocations never both write a record; and once nobody is
\* writing, an invocation that loaded or completely wrote its key finds a
\* record of that key in the file.
C3_RaceClosed ==
    /\ ~(\A p \in Procs : call[p] = "createSaveKey" /\ wrote[p] # <<0, 0>>)
    /\ \A p \in Procs :
        (/\ loadRes[p] = "ok"
         /\ call[p] = "createSaveKey" => WroteAll(p)
         /\ \A q \in Procs : pc[q] \notin {"GenerateKey", "WritePriv", "WritePub"})
        => fileContent = Record(privKey[p])

\* C4: when the file does not hold a valid private-key block, useKey
\* returns an error and no key, and leaves the file as it was.
C4_UndecodableFileIsAnError ==
    \A p \in Procs :
        (call[p] = "useKey" /\ loadRes[p] # "none" /\ ~ValidPrivateBlock(fileContent))
        => /\ loadRes[p] = "err"
           /\ privKey[p] = NilKey
           /\ File = atStart[p]

\* C5: sign succeeds on every message unless a library call fails, and the
\* message field of the parsed artifact is the message.
C5_MessageRoundTrip ==
    /\ (tStage # "call" /\ tFault = Faultless) => tSigned.err = NoError
    /\ tStage \in {"parsed", "verified"} => tOut[1] /\ tOut[2].Message = tInput

\* C6: the pubkey field of the parsed artifact is the public-key text that
\* was handed to sign.
C6_PubKeyVerbatim ==
    tStage \in {"parsed", "verified"} => tOut[1] /\ tOut[2].PubKey = tPubKey

\* C7: the signature field of the parsed artifact, base64-decoded and
\* ASN.1-decoded into (R, S), verifies against the SHA-256 digest of the
\* message under the public point of the key.
C7_SignatureVerifies ==
    tStage \in {"parsed", "verified"} =>
        LET decSign == DecodeString(tOut[2].Signature)
            sig     == asn1Unmarshal(decSign[2])
        IN  /\ tOut[1] /\ decSign[1] /\ sig[1]
            /\ Verify(tPrivKey.Q, Sum256(tInput), sig[2].R, sig[2].S)

\* "Hello" signed and verified, with an R whose top bit is set (the INTEGER
\* needs its leading zero byte)
C7_Witness ==
    /\ tStage = "verified" /\ tValid
    /\ tInput = Hello
    /\ asn1Unmarshal(DecodeString(tOut[2].Signature)[2])[2].R >= 128

\* C8: createSaveKey returns a key and no error only when both blocks were
\* written completely.
C8_NoWriteErrorSuppressed ==
    \A p \in Procs : (call[p] = "createSaveKey" /\ loadRes[p] = "ok") => WroteAll(p)

\* C9: between invocations, a file that the invocations created holds
\* exactly one private block followed by the public block of the same key.
C9_FileIsARecord ==
    (~preexisting /\ fileExists /\ pc[1] = "idle") => IsRecord(fileContent)

\* what C10 says of every state
C10_Safe ==
    /\ Len(Artifacts(1)) <= 1
    /\ output[1].err # "none" => loadRes[1] = "ok"
    /\ output[1].err \notin {"none", NoError} => output[1].text = <<>>
    /\ Artifacts(1) # <<>> =>
        /\ output[1].err = NoError
        /\ stdout[1] = <<output[1].text>>
        /\ exit[1] = 0
    /\ pc[1] = "done" =>
        \/ exit[1] = 0 /\ Len(Artifacts(1)) = 1
        \/ exit[1] # 0 /\ Artifacts(1) = <<>>

\* C10: an invocation that has started ends; it prints at most one
\* artifact, only after load-or-create and then sign returned without
\* error, and ends with status 0 exactly when it printed one; sign returns
\* the empty string with every error.
C10_OneArtifactOrError == []C10_Safe /\ ((pc[1] # "idle") ~> (pc[1] = "done"))

\* an invocation that ended with its artifact printed
C10_Witness == pc[1] = "done" /\ exit[1] = 0 /\ stdout[1] = <<output[1].text>>

=============================================================================
